---- MODULE Spec2Model ----
(***************************************************************************)
(* Model of the CHIP-8 Cpu of src/src/cpu/mod.rs: the Cpu struct, its      *)
(* call stack (push / pop), instruction fetch, step and reset.             *)
(*                                                                         *)
(* Arrays are functions over 0..n-1, as in Rust.  Every method is a pure   *)
(* operator from the Cpu before the call to a record                       *)
(*   [cpu |-> the Cpu after the call, ret |-> the returned Result]         *)
(* and every action applies one method to the state.                       *)
(***************************************************************************)
EXTENDS Integers, Sequences, FiniteSets, TLC

\* ------------------------------------------------------------------ constants
NUM_REGISTERS == 16
STACK_SIZE == 16
NUM_KEYS == 16

\* --------------------------------------------------------------------- bounds
\* longest memory slice handed to fetch
MemLen == 4
\* largest program counter written directly into the pub field pc
MaxPc == 6
\* push calls made by the push-then-pop scenario
MaxCalls == 16
\* calls made by the field-write scenario
MaxOps == 4
\* instruction words in a program run by step
MaxWords == 2

\* u16 values pushed on the call stack
Values == {512, 65535}
\* the single value pushed where only the stack pointer matters
OneValue == {512}
\* byte values found in memory
Bytes == {0, 18, 255}
\* the memory of the field-write scenario
SampleMemory == [a \in 0..1 |-> IF a = 0 THEN 162 ELSE 240]
\* memory slices of every length up to MemLen
Memories == {SampleMemory} \cup UNION {[0..(n - 1) -> Bytes] : n \in 0..MemLen}

VARIABLES cpu, memory, screen, op, arg, ret, exec,
          pushed, popped, calls, before, abs, absret

vars == <<cpu, memory, screen, op, arg, ret, exec,
          pushed, popped, calls, before, abs, absret>>
\* what only the step and the refinement record
others == <<exec, abs, absret>>
scenario == <<pushed, popped, calls, before, others>>

\* -------------------------------------------------------------------- results
Unit == "unit"
Ok(x) == [tag |-> "Ok", val |-> x]
StackOverflow(n) == [tag |-> "StackOverflow", val |-> n]
StackUnderflow == [tag |-> "StackUnderflow"]
AddressOutOfBounds(a, l) == [tag |-> "AddressOutOfBounds", address |-> a, limit |-> l]
NoResult == [tag |-> "None"]

\* the screen handed to step; the Cpu never looks inside it
Blank == "blank"
\* the record of the last step when it never reached execute
NotExecuted == [called |-> FALSE]

\* ---------------------------------------------------------------------- u16
RECURSIVE BitOr(_, _)
BitOr(a, b) ==
    IF a = 0 THEN b
    ELSE IF b = 0 THEN a
    ELSE (IF (a % 2 = 1) \/ (b % 2 = 1) THEN 1 ELSE 0) + 2 * BitOr(a \div 2, b \div 2)

Shl8(x) == (x * 256) % 65536

\* ---------------------------------------------------------------------- Cpu
Default ==
    [v |-> [r \in 0..(NUM_REGISTERS - 1) |-> 0],
     i |-> 0,
     pc |-> 0,
     sp |-> 0,
     timer_delay |-> 0,
     timer_sound |-> 0,
     stack |-> [s \in 0..(STACK_SIZE - 1) |-> 0],
     keypad |-> [k \in 0..(NUM_KEYS - 1) |-> FALSE]]

\* push that overwrites the top slot when the stack is full
push_OverflowClobbers(self, value) ==
    IF self.sp = STACK_SIZE - 1
    THEN [cpu |-> [self EXCEPT !.stack[self.sp] = value],
          ret |-> StackOverflow(Cardinality(DOMAIN self.stack))]
    ELSE LET sp1 == self.sp + 1
         IN  [cpu |-> [self EXCEPT !.sp = sp1, !.stack[sp1] = value],
              ret |-> Ok(Unit)]

\* push that reports a full stack one slot early
push_FullOneEarly(self, value) ==
    IF self.sp = STACK_SIZE - 2
    THEN [cpu |-> self, ret |-> StackOverflow(Cardinality(DOMAIN self.stack))]
    ELSE LET sp1 == self.sp + 1
         IN  [cpu |-> [self EXCEPT !.sp = sp1, !.stack[sp1] = value],
              ret |-> Ok(Unit)]

\* push that reports the number of values held when the stack is full
push_OverflowReportsHeld(self, value) ==
    IF self.sp = STACK_SIZE - 1
    THEN [cpu |-> self, ret |-> StackOverflow(self.sp)]
    ELSE LET sp1 == self.sp + 1
         IN  [cpu |-> [self EXCEPT !.sp = sp1, !.stack[sp1] = value],
              ret |-> Ok(Unit)]

\* push that writes above the top and forgets to move the stack pointer
push_NoIncrement(self, value) ==
    IF self.sp = STACK_SIZE - 1
    THEN [cpu |-> self, ret |-> StackOverflow(Cardinality(DOMAIN self.stack))]
    ELSE [cpu |-> [self EXCEPT !.stack[self.sp + 1] = value],
          ret |-> Ok(Unit)]

\* push that writes at the old top and then moves the stack pointer
push_WritesOldTop(self, value) ==
    IF self.sp = STACK_SIZE - 1
    THEN [cpu |-> self, ret |-> StackOverflow(Cardinality(DOMAIN self.stack))]
    ELSE [cpu |-> [self EXCEPT !.stack[self.sp] = value, !.sp = self.sp + 1],
          ret |-> Ok(Unit)]

push(self, value) ==
    IF self.sp = STACK_SIZE - 1
    THEN [cpu |-> self, ret |-> StackOverflow(Cardinality(DOMAIN self.stack))]
    ELSE LET sp1 == self.sp + 1
         IN  [cpu |-> [self EXCEPT !.sp = sp1, !.stack[sp1] = value],
              ret |-> Ok(Unit)]

\* pop that decrements before it reads
pop_ReadsBelowTop(self) ==
    IF self.sp = 0
    THEN [cpu |-> self, ret |-> StackUnderflow]
    ELSE LET value == self.stack[self.sp - 1]
         IN  [cpu |-> [self EXCEPT !.sp = self.sp - 1],
              ret |-> Ok(value)]

\* pop that clears the call stack when it finds it empty
pop_UnderflowWipes(self) ==
    IF self.sp = 0
    THEN [cpu |-> [self EXCEPT !.stack = [s \in 0..(STACK_SIZE - 1) |-> 0]],
          ret |-> StackUnderflow]
    ELSE LET value == self.stack[self.sp]
         IN  [cpu |-> [self EXCEPT !.sp = self.sp - 1],
              ret |-> Ok(value)]

\* pop without the emptiness check
pop_Unchecked(self) ==
    LET value == self.stack[self.sp]
    IN  [cpu |-> [self EXCEPT !.sp = self.sp - 1],
         ret |-> Ok(value)]

\* pop that zeroes the slot it returns
pop_ClearsSlot(self) ==
    IF self.sp = 0
    THEN [cpu |-> self, ret |-> StackUnderflow]
    ELSE LET value == self.stack[self.sp]
         IN  [cpu |-> [self EXCEPT !.sp = self.sp - 1, !.stack[self.sp] = 0],
              ret |-> Ok(value)]

pop(self) ==
    IF self.sp = 0
    THEN [cpu |-> self, ret |-> StackUnderflow]
    ELSE LET value == self.stack[self.sp]
         IN  [cpu |-> [self EXCEPT !.sp = self.sp - 1],
              ret |-> Ok(value)]

\* fetch that composes the word low byte first
fetch_LittleEndian(self, mem) ==
    LET len == Cardinality(DOMAIN mem)
    IN  IF (self.pc + 1) >= len
        THEN [cpu |-> self, memory |-> mem, ret |-> AddressOutOfBounds(self.pc + 1, len)]
        ELSE LET hi == mem[self.pc]
                 lo == mem[self.pc + 1]
                 opcode == BitOr(Shl8(lo), hi)
             IN  [cpu |-> [self EXCEPT !.pc = self.pc + 2],
                  memory |-> mem,
                  ret |-> Ok(opcode)]

\* fetch that reports the program counter itself as the offending address
fetch_ReportsPc(self, mem) ==
    LET len == Cardinality(DOMAIN mem)
    IN  IF (self.pc + 1) >= len
        THEN [cpu |-> self, memory |-> mem, ret |-> AddressOutOfBounds(self.pc, len)]
        ELSE LET hi == mem[self.pc]
                 lo == mem[self.pc + 1]
                 opcode == BitOr(Shl8(hi), lo)
             IN  [cpu |-> [self EXCEPT !.pc = self.pc + 2],
                  memory |-> mem,
                  ret |-> Ok(opcode)]

\* fetch that advances the program counter before the bounds check
fetch_AdvanceOnError(self, mem) ==
    LET len == Cardinality(DOMAIN mem)
    IN  IF (self.pc + 1) >= len
        THEN [cpu |-> [self EXCEPT !.pc = self.pc + 2],
              memory |-> mem,
              ret |-> AddressOutOfBounds(self.pc + 1, len)]
        ELSE LET hi == mem[self.pc]
                 lo == mem[self.pc + 1]
                 opcode == BitOr(Shl8(hi), lo)
             IN  [cpu |-> [self EXCEPT !.pc = self.pc + 2],
                  memory |-> mem,
                  ret |-> Ok(opcode)]

\* fetch that zeroes the two bytes it has read
fetch_ConsumesWord(self, mem) ==
    LET len == Cardinality(DOMAIN mem)
    IN  IF (self.pc + 1) >= len
        THEN [cpu |-> self, memory |-> mem, ret |-> AddressOutOfBounds(self.pc + 1, len)]
        ELSE LET hi == mem[self.pc]
                 lo == mem[self.pc + 1]
                 opcode == BitOr(Shl8(hi), lo)
             IN  [cpu |-> [self EXCEPT !.pc = self.pc + 2],
                  memory |-> [mem EXCEPT ![self.pc] = 0, ![self.pc + 1] = 0],
                  ret |-> Ok(opcode)]

\* fetch that advances the program counter by one byte
fetch_AdvancesByOne(self, mem) ==
    LET len == Cardinality(DOMAIN mem)
    IN  IF (self.pc + 1) >= len
        THEN [cpu |-> self, memory |-> mem, ret |-> AddressOutOfBounds(self.pc + 1, len)]
        ELSE LET hi == mem[self.pc]
                 lo == mem[self.pc + 1]
                 opcode == BitOr(Shl8(hi), lo)
             IN  [cpu |-> [self EXCEPT !.pc = self.pc + 1],
                  memory |-> mem,
                  ret |-> Ok(opcode)]

fetch(self, mem) ==
    LET len == Cardinality(DOMAIN mem)
    IN  IF (self.pc + 1) >= len
        THEN [cpu |-> self, memory |-> mem, ret |-> AddressOutOfBounds(self.pc + 1, len)]
        ELSE LET hi == mem[self.pc]
                 lo == mem[self.pc + 1]
                 opcode == BitOr(Shl8(hi), lo)
             IN  [cpu |-> [self EXCEPT !.pc = self.pc + 2],
                  memory |-> mem,
                  ret |-> Ok(opcode)]

\* reset that forgets the keypad
reset_KeepsKeypad(self) ==
    [self EXCEPT !.v = [r \in 0..(NUM_REGISTERS - 1) |-> 0],
                 !.i = 0,
                 !.pc = 0,
                 !.sp = 0,
                 !.timer_delay = 0,
                 !.timer_sound = 0,
                 !.stack = [s \in 0..(STACK_SIZE - 1) |-> 0]]

\* reset that forgets the stack pointer
reset_KeepsStackPointer(self) ==
    [self EXCEPT !.v = [r \in 0..(NUM_REGISTERS - 1) |-> 0],
                 !.i = 0,
                 !.pc = 0,
                 !.timer_delay = 0,
                 !.timer_sound = 0,
                 !.stack = [s \in 0..(STACK_SIZE - 1) |-> 0],
                 !.keypad = [k \in 0..(NUM_KEYS - 1) |-> FALSE]]

reset(self) ==
    [self EXCEPT !.v = [r \in 0..(NUM_REGISTERS - 1) |-> 0],
                 !.i = 0,
                 !.pc = 0,
                 !.sp = 0,
                 !.timer_delay = 0,
                 !.timer_sound = 0,
                 !.stack = [s \in 0..(STACK_SIZE - 1) |-> 0],
                 !.keypad = [k \in 0..(NUM_KEYS - 1) |-> FALSE]]

\* ------------------------------------------------------- decode and execute
\* The collaborator of step (module opcodes): decode is total, execute
\* reports an error and leaves everything alone when an operation cannot be
\* completed.
Operation(kind, nnn) == [kind |-> kind, nnn |-> nnn]

decode(word) ==
    LET nnn == word % 4096
        top == word \div 4096
    IN  IF word = 224 THEN Operation("ClearScreen", nnn)
        ELSE IF word = 238 THEN Operation("Return", nnn)
        ELSE IF top = 1 THEN Operation("Jump", nnn)
        ELSE IF top = 2 THEN Operation("Call", nnn)
        ELSE IF top = 10 THEN Operation("LoadIndex", nnn)
        ELSE IF top = 13 THEN Operation("Draw", nnn)
        ELSE Operation("Unsupported", nnn)

UnsupportedOpcode == [tag |-> "UnsupportedOpcode"]

execute(opcode, self, mem, scr) ==
    LET len == Cardinality(DOMAIN mem)
        same(r) == [cpu |-> self, memory |-> mem, screen |-> scr, ret |-> r]
        with(c) == [cpu |-> c, memory |-> mem, screen |-> scr, ret |-> Ok(Unit)]
    IN  CASE opcode.kind = "ClearScreen" ->
                [cpu |-> self, memory |-> mem, screen |-> Blank, ret |-> Ok(Unit)]
          [] opcode.kind = "Draw" ->
                [cpu |-> self, memory |-> mem, screen |-> "drawn", ret |-> Ok(Unit)]
          [] opcode.kind = "LoadIndex" ->
                with([self EXCEPT !.i = opcode.nnn])
          [] opcode.kind = "Jump" ->
                IF opcode.nnn >= len
                THEN same(AddressOutOfBounds(opcode.nnn, len))
                ELSE with([self EXCEPT !.pc = opcode.nnn])
          [] opcode.kind = "Call" ->
                LET p == push(self, self.pc)
                IN  IF p.ret.tag # "Ok"
                    THEN same(p.ret)
                    ELSE IF opcode.nnn >= len
                    THEN same(AddressOutOfBounds(opcode.nnn, len))
                    ELSE with([p.cpu EXCEPT !.pc = opcode.nnn])
          [] opcode.kind = "Return" ->
                LET p == pop(self)
                IN  IF p.ret.tag # "Ok"
                    THEN same(p.ret)
                    ELSE with([p.cpu EXCEPT !.pc = p.ret.val])
          [] OTHER -> same(UnsupportedOpcode)

\* the record of a step that reached execute: the operation it passed, the
\* program counter at that moment and what execute returned
Executed(opcode, pc, r) == [called |-> TRUE, opcode |-> opcode, pc |-> pc, ret |-> r]

\* step that executes whatever word it has when fetch fails
step_ExecutesAnyway(self, mem, scr) ==
    LET f == fetch(self, mem)
        word == IF f.ret.tag = "Ok" THEN f.ret.val ELSE 0
        opcode == decode(word)
        e == execute(opcode, f.cpu, f.memory, scr)
    IN  [cpu |-> e.cpu, memory |-> e.memory, screen |-> e.screen,
         ret |-> IF f.ret.tag # "Ok" THEN f.ret ELSE e.ret,
         exec |-> Executed(opcode, f.cpu.pc, e.ret)]

\* step that puts the program counter back when execute fails
step_RollsBack(self, mem, scr) ==
    LET f == fetch(self, mem)
    IN  IF f.ret.tag # "Ok"
        THEN [cpu |-> f.cpu, memory |-> f.memory, screen |-> scr,
              ret |-> f.ret, exec |-> NotExecuted]
        ELSE LET opcode == decode(f.ret.val)
                 e == execute(opcode, f.cpu, f.memory, scr)
             IN  [cpu |-> IF e.ret.tag # "Ok" THEN self ELSE e.cpu,
                  memory |-> e.memory, screen |-> e.screen,
                  ret |-> e.ret,
                  exec |-> Executed(opcode, f.cpu.pc, e.ret)]

\* step that advances the program counter only after execute
step_AdvancesAfterExecute(self, mem, scr) ==
    LET f == fetch(self, mem)
    IN  IF f.ret.tag # "Ok"
        THEN [cpu |-> f.cpu, memory |-> f.memory, screen |-> scr,
              ret |-> f.ret, exec |-> NotExecuted]
        ELSE LET opcode == decode(f.ret.val)
                 e == execute(opcode, self, f.memory, scr)
             IN  [cpu |-> IF e.cpu.pc = self.pc
                          THEN [e.cpu EXCEPT !.pc = self.pc + 2]
                          ELSE e.cpu,
                  memory |-> e.memory, screen |-> e.screen,
                  ret |-> e.ret,
                  exec |-> Executed(opcode, self.pc, e.ret)]

step(self, mem, scr) ==
    LET f == fetch(self, mem)
    IN  IF f.ret.tag # "Ok"
        THEN [cpu |-> f.cpu, memory |-> f.memory, screen |-> scr,
              ret |-> f.ret, exec |-> NotExecuted]
        ELSE LET opcode == decode(f.ret.val)
                 e == execute(opcode, f.cpu, f.memory, scr)
             IN  [cpu |-> e.cpu, memory |-> e.memory, screen |-> e.screen,
                  ret |-> e.ret,
                  exec |-> Executed(opcode, f.cpu.pc, e.ret)]

TypeOK ==
    /\ cpu.v \in [0..(NUM_REGISTERS - 1) -> 0..255]
    /\ cpu.i \in 0..65535
    /\ cpu.pc \in Nat
    /\ cpu.sp \in Nat
    /\ cpu.timer_delay \in 0..255
    /\ cpu.timer_sound \in 0..255
    /\ cpu.stack \in [0..(STACK_SIZE - 1) -> 0..65535]
    /\ cpu.keypad \in [0..(NUM_KEYS - 1) -> BOOLEAN]

\* ------------------------------------------------------------------ one call
\* The effect of one call on the Cpu, on the memory it borrows and on the
\* record of the last call.
DoPush(vals) ==
    \E value \in vals :
        LET r == push(cpu, value)
        IN  /\ cpu' = r.cpu
            /\ ret' = r.ret
            /\ op' = "push"
            /\ arg' = value
            /\ UNCHANGED <<memory, screen>>

DoPop ==
    LET r == pop(cpu)
    IN  /\ cpu' = r.cpu
        /\ ret' = r.ret
        /\ op' = "pop"
        /\ arg' = 0
        /\ UNCHANGED <<memory, screen>>

DoFetch ==
    LET r == fetch(cpu, memory)
    IN  /\ cpu' = r.cpu
        /\ ret' = r.ret
        /\ op' = "fetch"
        /\ arg' = 0
        /\ memory' = r.memory
        /\ UNCHANGED screen

DoReset ==
    /\ cpu' = reset(cpu)
    /\ ret' = Ok(Unit)
    /\ op' = "reset"
    /\ arg' = 0
    /\ UNCHANGED <<memory, screen>>

\* ------------------------------------------------- the Cpu under its methods
InitWith(mems) ==
    /\ cpu = Default
    /\ memory \in mems
    /\ screen = Blank
    /\ op = "none"
    /\ arg = 0
    /\ ret = NoResult
    /\ exec = NotExecuted
    /\ abs = <<>>
    /\ absret = NoResult
    /\ pushed = <<>>
    /\ popped = <<>>
    /\ calls = 0
    /\ before = Default

Init == InitWith(Memories)

Push == DoPush(OneValue) /\ UNCHANGED scenario
Pop == DoPop /\ UNCHANGED scenario
Fetch == DoFetch /\ UNCHANGED scenario
Reset == DoReset /\ UNCHANGED scenario

Next == Push \/ Pop \/ Fetch \/ Reset

Spec == Init /\ [][Next]_vars

\* ------------------------------------------- the call stack, with two values
PushValue == DoPush(Values) /\ UNCHANGED scenario

NextStack == PushValue \/ Pop \/ Reset

SpecStack == InitWith({SampleMemory}) /\ [][NextStack]_vars

\* ------------------------------------------------ push k times, pop k times
\* The scenario of tests::pop: some pushes, then only pops, as many at most
\* as pushes succeeded.  calls counts the push calls, pushed and popped record
\* the values that went in and came out.
LifoPush ==
    /\ op \in {"none", "push"}
    /\ calls < MaxCalls
    /\ DoPush(Values)
    /\ calls' = calls + 1
    /\ pushed' = IF ret'.tag = "Ok" THEN Append(pushed, arg') ELSE pushed
    /\ UNCHANGED <<popped, before, others>>

LifoPop ==
    /\ Len(popped) < Len(pushed)
    /\ DoPop
    /\ popped' = IF ret'.tag = "Ok" THEN Append(popped, ret'.val) ELSE popped
    /\ UNCHANGED <<pushed, calls, before, others>>

NextLifo == LifoPush \/ LifoPop

SpecLifo == InitWith({SampleMemory}) /\ [][NextLifo]_vars

\* ------------------------------------------------- fetch over every memory
\* pc is a pub field: a jump writes it, possibly past the end of memory.
SetPc ==
    /\ \E target \in 0..MaxPc : cpu' = [cpu EXCEPT !.pc = target]
    /\ op' = "set_pc"
    /\ arg' = 0
    /\ ret' = NoResult
    /\ UNCHANGED <<memory, screen, scenario>>

NextFetch == Fetch \/ SetPc \/ Reset

SpecFetch == Init /\ [][NextFetch]_vars

\* --------------------------------------------- any calls and field writes
\* At most MaxOps calls or writes of the pub fields; before is the Cpu as it
\* was when the last of them started.
Tally ==
    /\ calls' = calls + 1
    /\ before' = cpu
    /\ UNCHANGED <<pushed, popped, others>>

Write(new) ==
    /\ cpu' = new
    /\ op' = "write"
    /\ arg' = 0
    /\ ret' = NoResult
    /\ UNCHANGED <<memory, screen>>

WPush == calls < MaxOps /\ DoPush(OneValue) /\ Tally
WPop == calls < MaxOps /\ DoPop /\ Tally
WFetch == calls < MaxOps /\ DoFetch /\ Tally
WReset == calls < MaxOps /\ DoReset /\ Tally

WriteV ==
    /\ calls < MaxOps
    /\ \E x \in 0..(NUM_REGISTERS - 1) : Write([cpu EXCEPT !.v[x] = 255])
    /\ Tally

WriteI == calls < MaxOps /\ Write([cpu EXCEPT !.i = 4095]) /\ Tally
WriteTimerDelay == calls < MaxOps /\ Write([cpu EXCEPT !.timer_delay = 60]) /\ Tally
WriteTimerSound == calls < MaxOps /\ Write([cpu EXCEPT !.timer_sound = 60]) /\ Tally

WriteKeypad ==
    /\ calls < MaxOps
    /\ \E k \in 0..(NUM_KEYS - 1) : Write([cpu EXCEPT !.keypad[k] = TRUE])
    /\ Tally

NextWrites ==
    \/ WPush \/ WPop \/ WFetch \/ WReset
    \/ WriteV \/ WriteI \/ WriteTimerDelay \/ WriteTimerSound \/ WriteKeypad

SpecWrites == InitWith({SampleMemory}) /\ [][NextWrites]_vars

\* ------------------------------------------------------ the driving loop
\* Programs of up to MaxWords instruction words, stored high byte first.
Words == {224, 238, 4096, 8191, 8192, 8194, 41712, 53249, 65535}

Image(ws) ==
    [a \in 0..(2 * Len(ws) - 1) |->
        IF a % 2 = 0 THEN ws[(a \div 2) + 1] \div 256
                     ELSE ws[(a \div 2) + 1] % 256]

Programs == {Image(ws) : ws \in UNION {[1..n -> Words] : n \in 0..MaxWords}}

Step ==
    LET r == step(cpu, memory, screen)
    IN  /\ cpu' = r.cpu
        /\ memory' = r.memory
        /\ screen' = r.screen
        /\ ret' = r.ret
        /\ exec' = r.exec
        /\ op' = "step"
        /\ arg' = 0
        /\ UNCHANGED <<pushed, popped, calls, before, abs, absret>>

NextStep == Step \/ Reset

SpecStep == InitWith(Programs) /\ [][NextStep]_vars

\* ------------------------------------ the methods on a Cpu that is in use
\* The other owners of the pub fields (execute, the timer tick, the input)
\* write registers, index, timers and keys between the calls.
Touched == {0, NUM_REGISTERS - 1}

PokeV == (\E x \in Touched : Write([cpu EXCEPT !.v[x] = 255])) /\ UNCHANGED scenario
PokeI == Write([cpu EXCEPT !.i = 4095]) /\ UNCHANGED scenario
PokeTimerDelay == Write([cpu EXCEPT !.timer_delay = 60]) /\ UNCHANGED scenario
PokeTimerSound == Write([cpu EXCEPT !.timer_sound = 60]) /\ UNCHANGED scenario
PokeKeypad == (\E k \in Touched : Write([cpu EXCEPT !.keypad[k] = TRUE])) /\ UNCHANGED scenario

NextFrame ==
    \/ Push \/ Pop \/ Fetch \/ Reset
    \/ PokeV \/ PokeI \/ PokeTimerDelay \/ PokeTimerSound \/ PokeKeypad

SpecFrame == InitWith({SampleMemory}) /\ [][NextFrame]_vars

\* ------------------------------------ the call stack next to a bounded LIFO
\* abs is a sequence of at most Capacity values run in step with the Cpu:
\* push appends unless it is full, pop removes the last unless it is empty,
\* reset empties it.  absret is what the sequence answered.
Capacity == STACK_SIZE - 1

AbsPush(q, x) ==
    IF Len(q) < Capacity
    THEN [seq |-> Append(q, x), ret |-> Ok(Unit)]
    ELSE [seq |-> q, ret |-> [tag |-> "Full"]]

AbsPop(q) ==
    IF Len(q) > 0
    THEN [seq |-> SubSeq(q, 1, Len(q) - 1), ret |-> Ok(q[Len(q)])]
    ELSE [seq |-> q, ret |-> [tag |-> "Empty"]]

RPush ==
    /\ DoPush(Values)
    /\ abs' = AbsPush(abs, arg').seq
    /\ absret' = AbsPush(abs, arg').ret
    /\ UNCHANGED <<pushed, popped, calls, before, exec>>

RPop ==
    /\ DoPop
    /\ abs' = AbsPop(abs).seq
    /\ absret' = AbsPop(abs).ret
    /\ UNCHANGED <<pushed, popped, calls, before, exec>>

RReset ==
    /\ DoReset
    /\ abs' = <<>>
    /\ absret' = Ok(Unit)
    /\ UNCHANGED <<pushed, popped, calls, before, exec>>

NextRefine == RPush \/ RPop \/ RReset

SpecRefine == InitWith({SampleMemory}) /\ [][NextRefine]_vars

\* ------------------------------------------------------- nothing but fetch
\* A loop that keeps calling fetch on a fresh Cpu; calls counts the fetches
\* that succeeded.  The loop never stops calling, hence the fairness.
FetchOnly ==
    /\ DoFetch
    /\ calls' = IF ret'.tag = "Ok" THEN calls + 1 ELSE calls
    /\ UNCHANGED <<pushed, popped, before, others>>

NextFetchOnly == FetchOnly

SpecFetchOnly == Init /\ [][NextFetchOnly]_vars /\ WF_vars(FetchOnly)

\* ===================================================================== claims
MemoryLen == Cardinality(DOMAIN memory)

\* C1: LIFO.  From a fresh Cpu, k <= 15 push calls all succeed, the pop calls
\* that follow all succeed and return the pushed values in reverse order, and
\* after as many pops as pushes the stack pointer is 0 again.
C1_Lifo ==
    /\ (calls <= STACK_SIZE - 1) => (Len(pushed) = calls)
    /\ (op = "pop") => (ret.tag = "Ok")
    /\ \A j \in 1..Len(popped) : popped[j] = pushed[Len(pushed) + 1 - j]
    /\ (Len(popped) = Len(pushed)) => (cpu.sp = 0)

C1_Witness ==
    /\ Len(pushed) = STACK_SIZE - 1
    /\ Len(popped) = STACK_SIZE - 1
    /\ pushed[1] # pushed[2]
    /\ pushed[2] = pushed[STACK_SIZE - 1]
    /\ popped[1] # popped[STACK_SIZE - 1]
    /\ cpu.sp = 0

\* C2: a push called with stack_pointer = STACK_SIZE - 1 returns StackOverflow
\* whatever the value, and leaves the whole Cpu (stack pointer, every stack
\* slot, every other field) as it was.
C2_OverflowKeepsState ==
    [][(cpu.sp = STACK_SIZE - 1 /\ op' = "push")
         => (ret'.tag = "StackOverflow" /\ cpu' = cpu /\ memory' = memory)]_vars

C2_Witness ==
    /\ op = "push"
    /\ ret.tag = "StackOverflow"
    /\ cpu.sp = STACK_SIZE - 1
    /\ cpu.stack[cpu.sp] # arg

\* C3: a pop called with stack_pointer = 0 returns StackUnderflow and leaves
\* the whole Cpu as it was, on a fresh Cpu as well as on a stack that was
\* filled and drained.
C3_UnderflowKeepsState ==
    [][(cpu.sp = 0 /\ op' = "pop")
         => (ret' = StackUnderflow /\ cpu' = cpu /\ memory' = memory)]_vars

C3_Witness ==
    /\ op = "pop"
    /\ ret = StackUnderflow
    /\ cpu.sp = 0
    /\ cpu.stack[STACK_SIZE - 1] # 0

\* C4: a fetch called with pc + 1 < memory.len() succeeds, returns
\* memory[pc] * 256 + memory[pc + 1] and advances pc by exactly 2.
C4_FetchBigEndian ==
    [][(op' = "fetch" /\ cpu.pc + 1 < MemoryLen)
         => /\ ret' = Ok(memory[cpu.pc] * 256 + memory[cpu.pc + 1])
            /\ cpu'.pc = cpu.pc + 2]_vars

C4_Witness ==
    /\ op = "fetch"
    /\ MemoryLen >= 4
    /\ cpu.pc = 4
    /\ memory[2] = 18
    /\ memory[3] = 255
    /\ ret = Ok(4863)

\* C5: a fetch called with pc + 1 >= memory.len() fails with
\* AddressOutOfBounds {address: pc + 1, limit: memory.len()} and leaves pc
\* as it was.
C5_FetchOutOfBounds ==
    [][(op' = "fetch" /\ cpu.pc + 1 >= MemoryLen)
         => /\ ret' = AddressOutOfBounds(cpu.pc + 1, MemoryLen)
            /\ cpu'.pc = cpu.pc]_vars

C5_Witness ==
    /\ op = "fetch"
    /\ ret.tag = "AddressOutOfBounds"
    /\ MemoryLen = MemLen
    /\ cpu.pc > MemoryLen
    /\ ret.address = cpu.pc + 1
    /\ ret.limit = MemoryLen

\* C6: after any calls and field writes, reset leaves a Cpu equal field by
\* field to a freshly constructed one.
C6_ResetIsDefault == (op = "reset") => (cpu = Default)

C6_Witness ==
    /\ op = "reset"
    /\ cpu = Default
    /\ before.keypad # Default.keypad
    /\ before.v # Default.v
    /\ before.sp # 0

\* C7: under any interleaving of push, pop, fetch and reset from a fresh Cpu,
\* 0 <= stack_pointer <= STACK_SIZE - 1.
C7_StackPointerInRange == cpu.sp \in 0..(STACK_SIZE - 1)

C7_Witness ==
    /\ op = "push"
    /\ ret.tag = "StackOverflow"
    /\ cpu.sp = STACK_SIZE - 1
    /\ cpu.pc > 0

\* C8 as stated: under fetch calls and resets from a fresh Cpu over a fixed
\* memory (taken here to hold at least one byte), program_counter <
\* memory.len().
C8_PcBelowLength == (MemoryLen > 0) => (cpu.pc < MemoryLen)

\* C8 as amended: under fetch calls and resets from a fresh Cpu over a fixed
\* memory, program_counter <= memory.len(); the last word of a memory of even
\* length leaves it equal to memory.len().
C8_PcAtMostLength == cpu.pc <= MemoryLen

C8_Witness ==
    /\ op = "fetch"
    /\ ret.tag = "Ok"
    /\ MemoryLen = MemLen
    /\ cpu.pc = MemoryLen

\* C9: from an empty stack the first 16 consecutive pushes succeed (the doc
\* comment's limit of 16).
C9_SixteenPushesSucceed ==
    (op = "push" /\ calls <= STACK_SIZE) => (ret.tag = "Ok")

\* C10: from an empty stack and with no pop in between, exactly
\* STACK_SIZE - 1 = 15 consecutive pushes succeed, landing in slots 1..15,
\* and every later push fails with StackOverflow.
C10_FifteenUsable ==
    (op = "push") =>
        /\ (calls <= STACK_SIZE - 1) =>
              /\ ret.tag = "Ok"
              /\ cpu.sp = calls
              /\ \A s \in 1..calls : cpu.stack[s] = pushed[s]
              /\ \A s \in (0..(STACK_SIZE - 1)) \ (1..calls) : cpu.stack[s] = 0
        /\ (calls > STACK_SIZE - 1) =>
              /\ ret.tag = "StackOverflow"
              /\ cpu.sp = STACK_SIZE - 1
              /\ Len(pushed) = STACK_SIZE - 1

C10_Witness ==
    /\ op = "push"
    /\ calls = STACK_SIZE
    /\ ret.tag = "StackOverflow"
    /\ Len(pushed) = STACK_SIZE - 1
    /\ cpu.stack[STACK_SIZE - 1] = pushed[STACK_SIZE - 1]

\* C11 as stated: the StackOverflow of a failing push carries the number of
\* return addresses held at that moment, which is the stack pointer (15).
C11_OverflowCarriesHeld ==
    (op = "push" /\ ret.tag = "StackOverflow") => (ret.val = cpu.sp)

\* C11 as amended: the StackOverflow of a failing push carries the length of
\* the call_stack array, STACK_SIZE = 16, whatever the stack holds; that is
\* one more than the 15 values held.
C11_OverflowCarriesArrayLength ==
    (op = "push" /\ ret.tag = "StackOverflow") =>
        /\ ret.val = STACK_SIZE
        /\ ret.val = cpu.sp + 1

C11_Witness ==
    /\ op = "push"
    /\ ret = StackOverflow(STACK_SIZE)
    /\ cpu.sp = STACK_SIZE - 1
    /\ cpu.stack[1] # cpu.stack[STACK_SIZE - 1]

\* C12: a step called with pc + 1 >= memory.len() returns the
\* AddressOutOfBounds of fetch, never reaches execute, and leaves the Cpu,
\* the memory and the screen as they were.
C12_FetchErrorShortCircuits ==
    [][(op' = "step" /\ cpu.pc + 1 >= MemoryLen)
         => /\ ret' = AddressOutOfBounds(cpu.pc + 1, MemoryLen)
            /\ ~exec'.called
            /\ cpu' = cpu
            /\ memory' = memory
            /\ screen' = screen]_vars

C12_Witness ==
    /\ op = "step"
    /\ ~exec.called
    /\ ret = AddressOutOfBounds(cpu.pc + 1, MemoryLen)
    /\ MemoryLen = 4
    /\ cpu.sp > 0
    /\ screen # Blank

\* C13: when the fetch of a step succeeds and execute fails without touching
\* anything, the step returns the error of execute as it is and leaves the
\* Cpu as fetch left it: pc advanced by 2, every other field, the memory and
\* the screen as before the step.  A step returns Ok only when fetch and
\* execute both succeeded.
C13_ExecuteErrorPropagates ==
    [][(op' = "step") =>
         /\ (exec'.called /\ exec'.ret.tag # "Ok") =>
               /\ ret' = exec'.ret
               /\ cpu' = [cpu EXCEPT !.pc = cpu.pc + 2]
               /\ memory' = memory
               /\ screen' = screen
         /\ (ret'.tag = "Ok") =>
               /\ cpu.pc + 1 < MemoryLen
               /\ exec'.called
               /\ exec'.ret.tag = "Ok"]_vars

C13_Witness ==
    /\ op = "step"
    /\ exec.called
    /\ exec.opcode.kind = "Call"
    /\ ret.tag = "StackOverflow"
    /\ cpu.sp = STACK_SIZE - 1
    /\ cpu.pc = exec.pc
    /\ cpu.pc = 2

\* C14: the operation a step hands to execute is the decoding of the word
\* stored high byte first at the program counter of before the step, and
\* execute starts with the program counter already 2 further, so that a call
\* pushes the address of the next instruction.
C14_FetchThenDecodeThenExecute ==
    [][(op' = "step" /\ exec'.called) =>
         /\ cpu.pc + 1 < MemoryLen
         /\ exec'.opcode = decode(memory[cpu.pc] * 256 + memory[cpu.pc + 1])
         /\ exec'.pc = cpu.pc + 2
         /\ (exec'.opcode.kind = "Call" /\ ret'.tag = "Ok") =>
               /\ cpu'.sp = cpu.sp + 1
               /\ cpu'.stack[cpu'.sp] = cpu.pc + 2]_vars

C14_Witness ==
    /\ op = "step"
    /\ exec.called
    /\ exec.opcode.kind = "Call"
    /\ ret.tag = "Ok"
    /\ exec.pc = 4
    /\ cpu.stack[cpu.sp] = 4
    /\ cpu.pc = 2

\* what push and pop have no business with
Rest(c) == <<c.v, c.i, c.pc, c.timer_delay, c.timer_sound, c.keypad>>

InUse ==
    /\ cpu.v[0] = 255
    /\ cpu.i = 4095
    /\ cpu.pc = 2
    /\ cpu.timer_delay = 60
    /\ cpu.timer_sound = 60
    /\ cpu.keypad[NUM_KEYS - 1]

\* C15: a push called with stack_pointer < 15 succeeds, raises stack_pointer
\* by exactly 1 and writes the value into call_stack[new stack_pointer];
\* every other slot, the registers, index, program counter, timers and
\* keypad stay as they were.
C15_PushFrame ==
    [][(op' = "push" /\ cpu.sp < STACK_SIZE - 1)
         => /\ ret' = Ok(Unit)
            /\ cpu'.sp = cpu.sp + 1
            /\ cpu'.stack[cpu'.sp] = arg'
            /\ \A s \in (0..(STACK_SIZE - 1)) \ {cpu.sp + 1} :
                  cpu'.stack[s] = cpu.stack[s]
            /\ Rest(cpu') = Rest(cpu)
            /\ memory' = memory
            /\ screen' = screen]_vars

C15_Witness ==
    /\ op = "push"
    /\ ret = Ok(Unit)
    /\ cpu.sp = 2
    /\ cpu.stack[2] = arg
    /\ cpu.stack[3] = 0
    /\ InUse

\* C16: a pop called with stack_pointer > 0 returns call_stack[old
\* stack_pointer], lowers stack_pointer by exactly 1, changes no call_stack
\* slot and leaves registers, index, program counter, timers and keypad as
\* they were.
C16_PopFrame ==
    [][(op' = "pop" /\ cpu.sp > 0)
         => /\ ret' = Ok(cpu.stack[cpu.sp])
            /\ cpu'.sp = cpu.sp - 1
            /\ cpu'.stack = cpu.stack
            /\ Rest(cpu') = Rest(cpu)
            /\ memory' = memory
            /\ screen' = screen]_vars

C16_Witness ==
    /\ op = "pop"
    /\ ret = Ok(512)
    /\ cpu.sp = 1
    /\ cpu.stack[2] = 512
    /\ cpu.stack[3] = 0
    /\ InUse

\* C17: slot 0 of the call stack is never used.  Under any interleaving of
\* push, pop and reset from a fresh Cpu call_stack[0] is 0, the first push on
\* an empty stack lands in slot 1, and a successful pop returns a slot of
\* index 1 or more, never slot 0.
C17_SlotZeroReserved ==
    /\ [](cpu.stack[0] = 0)
    /\ [][/\ (op' = "push" /\ cpu.sp = 0) =>
                (ret'.tag = "Ok" /\ cpu'.sp = 1 /\ cpu'.stack[1] = arg')
          /\ (op' = "pop" /\ ret'.tag = "Ok") =>
                (cpu.sp >= 1 /\ ret'.val = cpu.stack[cpu.sp])]_vars

C17_Witness ==
    /\ op = "pop"
    /\ ret.tag = "Ok"
    /\ cpu.sp = 0
    /\ cpu.stack[0] = 0
    /\ cpu.stack[1] = ret.val
    /\ cpu.stack[1] # cpu.stack[2]
    /\ cpu.stack[2] # 0

\* C18: refinement.  Under any interleaving of push, pop and reset the call
\* stack simulates a bounded LIFO sequence of capacity 15: stack_pointer is
\* the length of the sequence, call_stack[1..stack_pointer] is its contents
\* in push order, push and pop succeed exactly when append and remove-last
\* do, and pop returns the last element of the sequence.
C18_RefinesBoundedLifo ==
    /\ cpu.sp = Len(abs)
    /\ \A s \in 1..Len(abs) : cpu.stack[s] = abs[s]
    /\ (op \in {"push", "pop"}) => ((ret.tag = "Ok") <=> (absret.tag = "Ok"))
    /\ (op = "pop" /\ ret.tag = "Ok") => (ret.val = absret.val)

C18_Witness ==
    /\ op = "pop"
    /\ ret.tag = "Ok"
    /\ absret = ret
    /\ Len(abs) = Capacity - 1
    /\ abs[1] # abs[2]
    /\ cpu.stack[Capacity] # abs[Capacity - 1]

\* C19: a run of fetch calls alone on a fresh Cpu over a memory of length L.
\* The program counter is even in every state, exactly L div 2 fetches
\* succeed, a fetch fails only after those, a failed fetch is followed by
\* failed fetches only with the program counter frozen, and the run ends up
\* failing with AddressOutOfBounds for ever.
C19_FetchOnlyEndsInError ==
    /\ [](/\ cpu.pc % 2 = 0
          /\ cpu.pc = 2 * calls
          /\ calls <= MemoryLen \div 2
          /\ (ret.tag = "AddressOutOfBounds") => (calls = MemoryLen \div 2))
    /\ [][(ret.tag = "AddressOutOfBounds")
            => (ret'.tag = "AddressOutOfBounds" /\ cpu'.pc = cpu.pc)]_vars
    /\ <>[](/\ ret = AddressOutOfBounds(cpu.pc + 1, MemoryLen)
            /\ calls = MemoryLen \div 2
            /\ cpu.pc = 2 * (MemoryLen \div 2))

C19_Witness ==
    /\ op = "fetch"
    /\ ret.tag = "AddressOutOfBounds"
    /\ MemoryLen >= 4
    /\ MemoryLen = MemLen
    /\ calls = MemLen \div 2
    /\ cpu.pc = 2 * calls

\* C20: fetch never writes the memory it borrows and changes no Cpu field
\* but the program counter, whether it succeeds or fails; push and pop never
\* change a timer.
C20_FetchAndStackFrame ==
    [][/\ (op' = "fetch") =>
             /\ memory' = memory
             /\ screen' = screen
             /\ cpu' = [cpu EXCEPT !.pc = cpu'.pc]
       /\ (op' \in {"push", "pop"}) =>
             /\ cpu'.timer_delay = cpu.timer_delay
             /\ cpu'.timer_sound = cpu.timer_sound]_vars

C20_Witness ==
    /\ op = "fetch"
    /\ ret = Ok(41712)
    /\ memory = SampleMemory
    /\ cpu.sp = 2
    /\ cpu.stack[3] = 512
    /\ InUse

====
